---- MODULE Spec2Model ----
(***************************************************************************)
(* A model of rekall/session.py: the Configuration store (Cache,           *)
(* Configuration), the Session parameter layers (GetParameter,             *)
(* StoreParameter, UpdateFromConfigObject) and the plugin dispatch         *)
(* (Session.vol, InteractiveSession.vol).                                  *)
(***************************************************************************)
EXTENDS Integers, Sequences, FiniteSets, TLC

VARIABLES
    state,      \* the Configuration dict of the session: key -> value (Absent = no such key)
    cache,      \* the Cache object made at Session.__init__ (state['cache']): key -> value
    lock,       \* Configuration._lock
    attached,   \* Configuration.session is a Session (TRUE) or None (FALSE)
    depth,      \* number of "with state:" scopes the caller has entered and not left
    op,         \* the call that made the last step: [name, k, v]
    err,        \* the exception that call raised ("none" when it returned)
    ret,        \* the value that call returned
    hooks,      \* UpdateFromConfigObject invocations made by that call
    sess,       \* Session attributes: kind, filename, profile, renderer, plugins, debug, pager, overwrite, last
    vol,        \* the dispatch in flight / last dispatch (Session.vol)
    load,       \* the last LoadProfile call: the containers that hold the profile, the containers it opened
    resync      \* UpdateFromConfigObject activations on the call stack

vars == <<state, cache, lock, attached, depth, op, err, ret, hooks, sess, vol, load, resync>>

(***************************************************************************)
(* Python values.  Every value is a record of the same shape so that any   *)
(* two of them compare: t is the Python type, a the text of an atom split  *)
(* at "/" (so that os.path.basename is computed, not assumed), items the   *)
(* members of a list; a dict holds its keys() list and its values() list.  *)
(***************************************************************************)
Val(t, a, items) == [t |-> t, a |-> a, items |-> items]

Absent    == Val("absent", <<>>, <<>>)          \* the key is not in the dict
VNone     == Val("NoneType", <<>>, <<>>)        \* None
VInt5     == Val("int", <<"5">>, <<>>)          \* 5
VInt1     == Val("int", <<"1">>, <<>>)          \* 1
VStrC     == Val("str", <<"c">>, <<>>)          \* "c"
VDefault  == Val("str", <<"dflt">>, <<>>)       \* "dflt"
VProfile  == Val("str", <<"nt">>, <<>>)         \* "nt", a profile name without "/"
VPath     == Val("str", <<"", "tmp", "x.img">>, <<>>)   \* "/tmp/x.img"
VBase     == Val("str", <<"x.img">>, <<>>)      \* "x.img"
VObj      == Val("object", <<"o">>, <<>>)       \* object(): not serializable, true
VEmptySet == Val("set", <<>>, <<>>)             \* set(): not serializable, false
VList(items) == Val("list", <<>>, items)
VDict(keys, values) == Val("dict", <<>>, <<VList(keys), VList(values)>>)
VListOk   == VList(<<VInt5, VNone>>)            \* [5, None]
VListBad  == VList(<<VInt5, VObj>>)             \* [5, object()]
VDictBad  == VDict(<<VStrC>>, <<VListBad>>)     \* {"c": [5, object()]}
CacheObj  == Val("Cache", <<"cache">>, <<>>)    \* the reference to the session's Cache object

\* Bound: how many "with state:" scopes the caller nests.
MaxDepth == 1

Keys == {"filename", "base_filename", "profile", "profile_path", "cache", "paging_limit", "k"}
CacheKeys == {"k"}

\* bool(value)
Truthy(value) ==
    CASE value.t \in {"NoneType", "absent"} -> FALSE
      [] value.t = "int" -> value.a # <<"0">>
      [] value.t \in {"str", "unicode"} -> value.a # <<"">> /\ value.a # <<>>
      [] value.t \in {"list", "tuple", "set"} -> value.items # <<>>
      [] value.t = "dict" -> value.items[1].items # <<>>
      [] OTHER -> TRUE

\* Cache._CheckCorrectType applied to the members of a dict-like Cache object
\* is applied to the values of the variable cache (its keys are strings).
RECURSIVE _CheckCorrectType(_)
_CheckCorrectType(value) ==
    IF value.t = "NoneType" THEN TRUE
    ELSE IF value.t \in {"int", "long", "bool", "str", "unicode", "float"} THEN TRUE
    ELSE IF value.t \in {"list", "tuple"}
        THEN \A i \in 1..Len(value.items) : _CheckCorrectType(value.items[i])
    ELSE IF value.t = "dict"
        THEN _CheckCorrectType(value.items[1]) /\ _CheckCorrectType(value.items[2])
    ELSE IF value.t = "Cache"
        THEN \A c \in CacheKeys : cache[c] = Absent \/ _CheckCorrectType(cache[c])
    ELSE FALSE

\* os.path.basename(filename): the text after the last "/"; a value that is
\* not a string has no rfind and raises AttributeError.
basename(filename) ==
    IF filename.t \in {"str", "unicode"}
    THEN [err |-> "none",
          val |-> Val(filename.t, <<filename.a[Len(filename.a)]>>, <<>>)]
    ELSE [err |-> "AttributeError", val |-> VNone]

\* dict.get(item, default) on a dict modelled as key -> value
Get(d, item, default) ==
    IF item \in DOMAIN d /\ d[item] # Absent THEN d[item] ELSE default

\* Cache._set_filename(filename), lines 95-98: no type check; the first
\* assignment is kept when basename raises.
_set_filename(st, filename) ==
    IF Truthy(filename)
    THEN LET st1 == [st EXCEPT !["filename"] = filename]
             b == basename(filename)
         IN  IF b.err = "none"
             THEN [err |-> "none", st |-> [st1 EXCEPT !["base_filename"] = b.val]]
             ELSE [err |-> b.err, st |-> st1]
    ELSE [err |-> "none", st |-> st]

\* getattr(self, "_set_%s" % attr, None): the only _set_ method of Cache and
\* Configuration is _set_filename (no key of Keys is named "_set_...").
HasHook(attr) == attr = "filename"

\* Cache.Set(attr, value), lines 103-114
CacheSet(st, attr, value) ==
    IF HasHook(attr)
    THEN _set_filename(st, value)
    ELSE IF ~_CheckCorrectType(value)
         THEN [err |-> "ValueError_type", st |-> st]
         ELSE [err |-> "none", st |-> [st EXCEPT ![attr] = value]]

\* A faulty variant of ConfigurationSet: the write lock is not looked at.
ConfigurationSet_nolock(st, attr, value) == CacheSet(st, attr, value)

\* Configuration.Set(attr, value), lines 131-136
ConfigurationSet(st, attr, value) ==
    IF lock
    THEN [err |-> "ValueError_locked", st |-> st]
    ELSE CacheSet(st, attr, value)

\* Cache.__setattr__(attr, value), lines 74-81, for an attr that is no
\* attribute of the object (a key of Keys): AttributeError, then self.Set.
Cache__setattr__(st, attr, value) == ConfigurationSet(st, attr, value)

(***************************************************************************)
(* Session: the two parameter layers.                                      *)
(***************************************************************************)
\* Session.GetParameter(item, default), lines 189-212.  self.state.cache is
\* state.get("cache"); anything but the Cache object has no Get method.
GetParameter(st, c, item, default) ==
    LET result == Get(st, item, VNone)
    IN  IF result # VNone
        THEN [err |-> "none", val |-> result]
        ELSE IF Get(st, "cache", VNone) # CacheObj
        THEN [err |-> "AttributeError", val |-> VNone]
        ELSE LET result2 == Get(c, item, VNone)
             IN  [err |-> "none", val |-> IF result2 # VNone THEN result2 ELSE default]

\* Session.StoreParameter(item, value), lines 214-215: a plain item
\* assignment on self.state.cache, with no lock and no type check; an int
\* or None in state['cache'] supports no item assignment.
StoreParameter(st, c, item, value) ==
    IF Get(st, "cache", VNone) = CacheObj
    THEN [err |-> "none", cache |-> [c EXCEPT ![item] = value]]
    ELSE [err |-> "TypeError", cache |-> c]

(***************************************************************************)
(* Session.LoadProfile and the re-synchronization.                         *)
(***************************************************************************)
VNoneObject == Val("NoneObject", <<>>, <<>>)    \* obj.NoneObject(...)
VProfileObj(name) == Val("Profile", name, <<>>) \* an obj.Profile instance

Reverse(s) == [i \in 1..Len(s) |-> s[Len(s) + 1 - i]]

\* state.Get("profile_path", [None]): the default is one container, made by
\* io_manager.Factory(None).
DefaultProfilePath == <<"None">>

\* The containers of the configured list, by name, in the list's order.
ProfilePath(st) ==
    LET v == Get(st, "profile_path", Absent)
    IN  IF v = Absent THEN DefaultProfilePath
        ELSE [i \in 1..Len(v.items) |-> v.items[i].a[1]]

\* Session.LoadProfile(filename), lines 330-366.  avail is the set of
\* containers (io_manager.Factory results) that hold the profile; a
\* container without it raises IOError or KeyError.  tried lists the
\* containers of the path search that were opened.
LoadProfile(filename, profile_path, avail) ==
    IF filename.t \notin {"str", "unicode"}
    THEN [err |-> "AttributeError", val |-> VNone, tried |-> <<>>]
    ELSE IF Len(filename.a) > 1
    THEN IF "direct" \in avail
         THEN [err |-> "none", val |-> VProfileObj(<<filename.a[Len(filename.a)]>>),
               tried |-> <<>>]
         ELSE [err |-> "IOError", val |-> VNone, tried |-> <<>>]
    ELSE LET paths == Reverse(profile_path)
         IN  IF paths = <<>>
             THEN [err |-> "none", val |-> VNone, tried |-> <<>>]
             ELSE IF paths[1] \in avail
             THEN [err |-> "none", val |-> VProfileObj(filename.a), tried |-> <<paths[1]>>]
             ELSE [err |-> "none", val |-> VNoneObject, tried |-> <<paths[1]>>]

\* plugin.Command.GetActiveClasses(session): the classes active for the
\* session's profile, by name.
GetActiveClasses(profile) ==
    IF profile.t = "Profile" THEN {"info", "pslist"} ELSE {"info"}

\* Session._update_runners, lines 176-183: a new Container replaces
\* self.plugins.  gen tells the new object from the one it replaces.
_update_runners(s) ==
    [s EXCEPT !.plugins = [built |-> TRUE, gen |-> 1 - s.plugins.gen,
                           names |-> GetActiveClasses(s.profile)]]

\* Session.UpdateFromConfigObject, lines 162-174: an exception leaves the
\* attributes assigned before it.
UpdateFromConfigObject(st, c, s, avail) ==
    LET s1 == [s EXCEPT !.filename = Get(st, "filename", VNone)]
        lp == LoadProfile(Get(st, "profile", VNone), ProfilePath(st), avail)
        s2 == [s1 EXCEPT !.profile = lp.val]
        gp == GetParameter(st, c, "renderer", VNone)
        s3 == [s2 EXCEPT !.renderer = IF gp.val = VNone THEN "TextRenderer" ELSE gp.val.a[1]]
    IN  IF lp.err # "none" THEN [err |-> lp.err, sess |-> s1]
        ELSE IF gp.err # "none" THEN [err |-> gp.err, sess |-> s2]
        ELSE [err |-> "none", sess |-> _update_runners(s3)]

(***************************************************************************)
(* The scoped update.                                                      *)
(***************************************************************************)
VBodyError == Val("exception", <<"BodyError">>, <<>>)   \* what a scope body raised

\* A faulty variant of _exit_lock: the lock is taken again only after a body that
\* returned.
_exit_lock_onlyclean(exc_type) == exc_type = VNone

\* Configuration.__exit__, line 144: self._lock = True
_exit_lock(exc_type) == TRUE

\* A faulty variant of _exit_hooks: no re-synchronization after a body that raised.
_exit_hooks_onlyclean(exc_type) == IF attached /\ exc_type = VNone THEN 1 ELSE 0

\* Configuration.__exit__, lines 145-146: the calls of
\* session.UpdateFromConfigObject it makes.
_exit_hooks(exc_type) == IF attached THEN 1 ELSE 0

Call(name, k, v) == [name |-> name, k |-> k, v |-> v]

\* No LoadProfile call has been made.
NoLoad == [avail |-> {}, tried |-> <<>>]

\* What a caller passes to Set: every key with the values that tell its
\* cases apart.
SetInputs ==
    ({"filename"} \X {VNone, VInt5, VPath, VObj, VEmptySet})
    \cup ({"cache"} \X {VInt5})
    \cup ({"k"} \X {VNone, VInt5, VListOk, VListBad, VDictBad, VObj})

StoreInputs == {"k"} \X {VNone, VStrC, VObj}

(***************************************************************************)
(* The dispatch: Session.vol(plugin_cls, *pos_args, **kwargs).             *)
(***************************************************************************)
\* Bound: the largest len(ui_renderer.data) a render leaves.
MaxData == 1

\* int(value) of an int value
IntOf(value) == CHOOSE n \in 0..9 : ToString(n) = value.a[1]

\* The exceptions of the except clauses, lines 309-322.
Faults == {"InvalidArgs", "Error", "KeyboardInterrupt", "Exception"}

\* What plugin_cls can be: a registered name, a name that is not
\* registered, a plugin class, a plugin instance.
PluginRefs == {"info", "nosuch", "class", "instance"}

\* renderer=, output=, overwrite= as a caller combines them: output and
\* overwrite are read only when no renderer instance is passed.
OutputArgs == {<<TRUE, "None", FALSE>>, <<FALSE, "None", FALSE>>,
               <<FALSE, "file", FALSE>>, <<FALSE, "file", TRUE>>}

\* flags= and an explicit keyword argument (pid=) as a caller combines them
KwArgs == {<<FALSE, FALSE>>, <<FALSE, TRUE>>, <<TRUE, FALSE>>, <<TRUE, TRUE>>}

NoVol ==
    [pc |-> "idle", ref |-> "None", renderer_arg |-> FALSE, output |-> "None",
     overwrite |-> FALSE, debug |-> FALSE, flags |-> FALSE, kwargs |-> {},
     plugin_cls |-> "None", ui_renderer |-> "None", fd |-> "None",
     data |-> 0, events |-> <<>>, exc |-> "none", result |-> "None",
     retval |-> "None", outcome |-> "none", returned |-> "None",
     explicit |-> FALSE, exists |-> "unknown"]

\* Lines 235-240: renderer, fd, debug and output are popped from kwargs;
\* overwrite and flags are read and stay in kwargs.
VolCall(ref, renderer_arg, output, overwrite, debug, flags, explicit) ==
    /\ vol.pc = "idle"
    /\ vol' = [NoVol EXCEPT
                 !.pc = "resolve", !.ref = ref, !.renderer_arg = renderer_arg,
                 !.output = output, !.overwrite = overwrite, !.debug = debug,
                 !.flags = flags, !.explicit = explicit,
                 !.kwargs = (IF explicit THEN {<<"pid", "caller">>} ELSE {})
                            \cup (IF overwrite THEN {<<"overwrite", "caller">>} ELSE {})
                            \cup (IF flags THEN {<<"flags", "caller">>} ELSE {}),
                 !.plugin_cls = IF ref \in {"class", "instance"} THEN ref ELSE "None",
                 !.ui_renderer = IF renderer_arg THEN "given" ELSE "None",
                 !.outcome = "running"]
    /\ op' = Call("vol", ref, VNone)
    /\ err' = "none" /\ ret' = VNone /\ hooks' = 0
    /\ UNCHANGED <<state, cache, lock, attached, depth, sess, load, resync>>

\* session.vol(...) as a caller makes it
Dispatch ==
    \E ref \in PluginRefs, out \in OutputArgs, debug \in BOOLEAN, kw \in KwArgs :
        VolCall(ref, out[1], out[2], out[3], debug, kw[1], kw[2])

Log(v, e) == [v EXCEPT !.events = Append(v.events, e)]

VolUnchanged == UNCHANGED <<state, cache, lock, attached, depth, op, err, ret, hooks, load, resync>>

\* Lines 242-248: a name is looked up in self.plugins (None before the
\* first _update_runners); a miss is logged and the call returns.
VolResolve ==
    /\ vol.pc = "resolve"
    /\ vol' = IF vol.ref \in {"class", "instance"}
              THEN [vol EXCEPT !.pc = "flags"]
              ELSE IF sess.plugins.built /\ vol.ref \in sess.plugins.names
              THEN [vol EXCEPT !.pc = "flags", !.plugin_cls = "Curry"]
              ELSE [Log(vol, "logging.error:not active") EXCEPT !.pc = "return"]
    /\ UNCHANGED sess /\ VolUnchanged

\* args.MockArgParser().build_args_dict(plugin_cls, flags): the keyword
\* arguments made from the flags.
build_args_dict == {<<"pid", "flags">>}

\* Lines 250-254: with flags, kwargs is rebound to the parser's dict.
VolFlags ==
    /\ vol.pc = "flags"
    /\ vol' = [vol EXCEPT !.pc = "renderer",
                          !.kwargs = IF vol.flags THEN build_args_dict ELSE @]
    /\ UNCHANGED sess /\ VolUnchanged

\* A faulty variant of OutputRefused: the session's overwrite flag is not read.
OutputRefused_callonly(exists, overwrite, s_overwrite) == exists /\ ~overwrite

\* Lines 262-263: os.access(output, os.F_OK) and not (overwrite or
\* self.overwrite).
OutputRefused(exists, overwrite, s_overwrite) == exists /\ ~(overwrite \/ s_overwrite)

\* Lines 256-277: unless a renderer instance was passed, the output file is
\* checked and opened and a renderer of the session's class is made.
\* self.renderer is unset (TextRenderer is used) or what
\* UpdateFromConfigObject stored; a str there is not callable and the
\* TypeError leaves vol, which has no handler around these lines.
VolRenderer ==
    /\ vol.pc = "renderer"
    /\ IF vol.renderer_arg
       THEN vol' = [vol EXCEPT !.pc = "start"]
       ELSE \E exists \in BOOLEAN :
              LET v0 == IF vol.output # "None"
                        THEN [vol EXCEPT !.exists = IF exists THEN "yes" ELSE "no"]
                        ELSE vol
              IN  IF vol.output # "None" /\ OutputRefused(exists, vol.overwrite, sess.overwrite)
                  THEN vol' = [Log(v0, "logging.error:exists") EXCEPT !.pc = "return"]
                  ELSE LET v1 == IF vol.output # "None"
                                 THEN [Log(v0, "open") EXCEPT !.fd = "file"] ELSE v0
                       IN  IF sess.renderer = "unset"
                           THEN vol' = [Log(v1, "renderer") EXCEPT
                                          !.ui_renderer = "new", !.pc = "start"]
                           ELSE vol' = [v1 EXCEPT !.exc = "TypeError", !.pc = "done",
                                                  !.outcome = "raised"]
    /\ UNCHANGED sess /\ VolUnchanged

\* Lines 280-282
VolStart ==
    /\ vol.pc = "start"
    /\ vol' = [Log(vol, "start") EXCEPT !.pc = "construct",
                  !.kwargs = @ \cup {<<"session", "self">>}]
    /\ UNCHANGED sess /\ VolUnchanged

\* Lines 284-288: a class or a Curry is called with kwargs, which may
\* raise; an instance is taken as it is.
VolConstruct ==
    /\ vol.pc = "construct"
    /\ IF vol.plugin_cls \in {"class", "Curry"}
       THEN \E f \in Faults \cup {"none"} :
              vol' = IF f = "none"
                     THEN [Log(vol, "construct") EXCEPT !.result = "new", !.pc = "start2"]
                     ELSE [vol EXCEPT !.exc = f, !.pc = "except"]
       ELSE vol' = [vol EXCEPT !.result = "given", !.pc = "start2"]
    /\ UNCHANGED sess /\ VolUnchanged

\* Line 290
VolStart2 ==
    /\ vol.pc = "start2"
    /\ vol' = [Log(vol, "start2") EXCEPT !.pc = "render"]
    /\ UNCHANGED sess /\ VolUnchanged

\* Line 293: result.render(ui_renderer) returns or raises, leaving
\* len(ui_renderer.data) = n.
VolRender ==
    /\ vol.pc = "render"
    /\ \E f \in Faults \cup {"none"}, n \in 0..MaxData :
          vol' = [Log(vol, "render") EXCEPT !.exc = f, !.data = n, !.pc = "finally"]
    /\ UNCHANGED sess /\ VolUnchanged

\* A faulty variant of _render_finally: end() only after a render that returned.
_render_finally_onsuccess(exc) == exc = "none"

\* Lines 292-295: the finally clause runs ui_renderer.end() whether or not
\* render raised.
_render_finally(exc) == TRUE

VolEnd ==
    /\ vol.pc = "finally"
    /\ LET v1 == IF _render_finally(vol.exc) THEN Log(vol, "end") ELSE vol
       IN  vol' = [v1 EXCEPT !.pc = IF vol.exc = "none" THEN "pager" ELSE "except"]
    /\ UNCHANGED sess /\ VolUnchanged

\* A faulty variant of AtPagingLimit: data of exactly the limit is not paged.
AtPagingLimit_strict(n, limit) == limit = VNone \/ n > IntOf(limit)

\* len(ui_renderer.data) >= self.state.paging_limit; Python 2 orders None
\* below every int.
AtPagingLimit(n, limit) == limit = VNone \/ n >= IntOf(limit)

\* Lines 297-307
VolPager ==
    /\ vol.pc = "pager"
    /\ LET v1 == IF sess.pager /\ AtPagingLimit(vol.data, Get(state, "paging_limit", VNone))
                 THEN Log(Log(vol, "pager.write"), "pager.flush") ELSE vol
       IN  vol' = [v1 EXCEPT !.retval = vol.result, !.pc = "return"]
    /\ UNCHANGED sess /\ VolUnchanged

\* A faulty variant of error: the base session swallows the plugin's error too.
error_swallow(kind) == "return"

\* Session.error, lines 217-219 (raise e), and InteractiveSession.error,
\* lines 493-496 (log and return).
error(kind) == IF kind = "InteractiveSession" THEN "return" ELSE "raise"

\* Lines 309-328: the except clauses, by the kind of the exception.
VolHandler(exc, debug, s) ==
    CASE exc = "InvalidArgs" ->
            [events |-> <<"logging.error:Invalid Args">>, then |-> "return"]
      [] exc = "Error" ->
            [events |-> <<"error">>, then |-> error(s.kind)]
      [] exc = "KeyboardInterrupt" ->
            [events |-> (IF s.debug THEN <<"pdb.post_mortem">> ELSE <<>>)
                        \o <<"report_progress:Aborted">>,
             then |-> "return"]
      [] OTHER ->
            [events |-> <<"logging.error:Error">>
                        \o (IF debug THEN <<"pdb.post_mortem">> ELSE <<>>),
             then |-> IF debug THEN "return" ELSE "raise"]

VolExcept ==
    /\ vol.pc = "except"
    /\ LET h == VolHandler(vol.exc, vol.debug, sess)
       IN  vol' = [vol EXCEPT !.events = @ \o h.events,
                              !.pc = IF h.then = "raise" THEN "done" ELSE "return",
                              !.outcome = IF h.then = "raise" THEN "raised" ELSE @]
    /\ UNCHANGED sess /\ VolUnchanged

\* The return of Session.vol (lines 248, 267, 307 and the end of the
\* handlers) and, on an InteractiveSession, lines 437-438:
\* self.last = super().vol(...), which returns nothing.
VolReturn ==
    /\ vol.pc = "return"
    /\ vol' = [vol EXCEPT !.pc = "done", !.outcome = "returned",
                 !.returned = IF sess.kind = "InteractiveSession" THEN "None" ELSE vol.retval]
    /\ sess' = IF sess.kind = "InteractiveSession"
               THEN [sess EXCEPT !.last = vol.retval] ELSE sess
    /\ VolUnchanged

\* InteractiveSession.v, lines 458-461
RepeatLast ==
    /\ sess.kind = "InteractiveSession"
    /\ vol.pc = "idle"
    /\ IF sess.last # "None"
       THEN VolCall("instance", FALSE, "None", FALSE, FALSE, FALSE, FALSE)
       ELSE /\ op' = Call("v", "", VNone)
            /\ UNCHANGED <<state, cache, lock, attached, depth, err, ret, hooks, sess, vol, load, resync>>

\* The caller has the outcome of the dispatch and goes on: the locals of
\* the call are gone.
VolIdle ==
    /\ vol.pc = "done"
    /\ vol' = NoVol
    /\ op' = Call("return", "", VNone)
    /\ UNCHANGED <<state, cache, lock, attached, depth, err, ret, hooks, sess, load, resync>>

\* InteractiveSession.reset, lines 433-435 and 440-452: _update_runners,
\* here before the first dispatch.
Reset ==
    /\ sess.kind = "InteractiveSession"
    /\ vol.pc = "idle" /\ op.name = "__init__"
    /\ sess' = _update_runners(sess)
    /\ op' = Call("reset", "", VNone)
    /\ UNCHANGED <<state, cache, lock, attached, depth, err, ret, hooks, vol, load, resync>>

\* "with session.state: pass" before the first dispatch: __enter__, then
\* __exit__ with its re-synchronization.
ScopedUpdate ==
    /\ vol.pc = "idle" /\ depth = 0 /\ op.name = "__init__"
    /\ \E avail \in {{"None", "direct"}} :
          LET u == UpdateFromConfigObject(state, cache, sess, avail)
          IN  /\ sess' = u.sess
              /\ err' = u.err
    /\ lock' = _exit_lock(VNone)
    /\ hooks' = _exit_hooks(VNone)
    /\ op' = Call("__exit__", "", VNone)
    /\ UNCHANGED <<state, cache, attached, depth, ret, vol, load, resync>>

\* Session.__init__(**kwargs) / Configuration.__init__, lines 124-129 and
\* 155-160: the seed values are stored by dict.update, unchecked, and the
\* store is locked.  A Configuration built on its own has no session and
\* no cache.
SeedK == {Absent, VObj}
SeedProfile == {Absent, VProfile}

\* Session.__init__ / InteractiveSession.__init__, lines 155-160 and 396-409.
\* An attribute never assigned reads as None (Session.__getattr__): filename,
\* renderer and plugins are "unset" until a re-synchronization; debug, pager
\* and overwrite are what the embedding program assigned.
NewSession(kind, debug, pager, overwrite) ==
    [kind |-> kind, filename |-> VNone, profile |-> VNoneObject, renderer |-> "unset",
     plugins |-> [built |-> FALSE, gen |-> 0, names |-> {}],
     debug |-> debug, pager |-> pager, overwrite |-> overwrite, last |-> "None"]

Init ==
    /\ attached \in BOOLEAN
    /\ \E sk \in SeedK, sp \in SeedProfile :
          state = [k \in Keys |->
                     CASE k = "cache" -> IF attached THEN CacheObj ELSE Absent
                       [] k = "k" -> sk
                       [] k = "profile" -> sp
                       [] OTHER -> Absent]
    /\ cache = [k \in CacheKeys |-> Absent]
    /\ lock = TRUE
    /\ depth = 0
    /\ op = Call("__init__", "", VNone)
    /\ err = "none"
    /\ ret = VNone
    /\ hooks = 0
    /\ sess = NewSession("Session", FALSE, FALSE, FALSE)
    /\ vol = NoVol
    /\ load = NoLoad
    /\ resync = 0

\* Configuration.__enter__, lines 138-141
Enter ==
    /\ depth < MaxDepth
    /\ depth' = depth + 1
    /\ lock' = FALSE
    /\ op' = Call("__enter__", "", VNone)
    /\ err' = "none" /\ ret' = VNone /\ hooks' = 0
    /\ UNCHANGED <<state, cache, attached, sess, vol, load, resync>>

\* Configuration.__exit__(exc_type, ...), lines 143-146; it returns None, so
\* the body's exception goes on to the caller unless the hook raised.
Exit ==
    /\ depth > 0
    /\ \E exc_type \in {VNone, VBodyError}, avail \in {{}, {"None", "direct"}} :
          LET u == UpdateFromConfigObject(state, cache, sess, avail)
              n == _exit_hooks(exc_type)
          IN  /\ lock' = _exit_lock(exc_type)
              /\ hooks' = n
              /\ sess' = IF n > 0 THEN u.sess ELSE sess
              /\ err' = IF n > 0 /\ u.err # "none" THEN u.err
                        ELSE IF exc_type # VNone THEN "BodyError" ELSE "none"
              /\ op' = Call("__exit__", "", exc_type)
    /\ depth' = depth - 1
    /\ ret' = VNone
    /\ UNCHANGED <<state, cache, attached, vol, load, resync>>

\* state.Set(attr, value)
Set ==
    \E in \in SetInputs :
        LET r == ConfigurationSet(state, in[1], in[2])
        IN  /\ state' = r.st
            /\ err' = r.err
            /\ op' = Call("Set", in[1], in[2])
            \* a write to state['cache'] drops the Cache object
            /\ cache' = IF r.st["cache"] = CacheObj THEN cache
                        ELSE [k \in CacheKeys |-> Absent]
    /\ ret' = VNone /\ hooks' = 0
    /\ UNCHANGED <<lock, attached, depth, sess, vol, load, resync>>

\* state.attr = value
SetAttr ==
    \E in \in SetInputs :
        LET r == Cache__setattr__(state, in[1], in[2])
        IN  /\ state' = r.st
            /\ err' = r.err
            /\ op' = Call("Set", in[1], in[2])
            /\ cache' = IF r.st["cache"] = CacheObj THEN cache
                        ELSE [k \in CacheKeys |-> Absent]
    /\ ret' = VNone /\ hooks' = 0
    /\ UNCHANGED <<lock, attached, depth, sess, vol, load, resync>>

\* session.StoreParameter(item, value)
Store ==
    /\ attached
    /\ \E in \in StoreInputs :
        LET r == StoreParameter(state, cache, in[1], in[2])
        IN  /\ cache' = r.cache
            /\ err' = r.err
            /\ op' = Call("StoreParameter", in[1], in[2])
    /\ ret' = VNone /\ hooks' = 0
    /\ UNCHANGED <<state, lock, attached, depth, sess, vol, load, resync>>

\* session.GetParameter(item, VDefault)
Resolve ==
    /\ attached
    /\ \E item \in {"k", "filename"} :
        LET r == GetParameter(state, cache, item, VDefault)
        IN  /\ ret' = r.val
            /\ err' = r.err
            /\ op' = Call("GetParameter", item, VDefault)
    /\ hooks' = 0
    /\ UNCHANGED <<state, cache, lock, attached, depth, sess, vol, load, resync>>

Next == Enter \/ Exit \/ Set \/ SetAttr \/ Store \/ Resolve

Spec == Init /\ [][Next]_vars

\* A session as a dispatch finds it: constructed, with the attributes the
\* embedding program assigns (debug, pager, overwrite), state.profile and
\* state.paging_limit seeded or not.
InitVol ==
    /\ attached = TRUE
    /\ \E pl \in {Absent, VInt1} :
          state = [k \in Keys |->
                     CASE k = "cache" -> CacheObj
                       [] k = "profile" -> VProfile
                       [] k = "paging_limit" -> pl
                       [] OTHER -> Absent]
    /\ cache = [k \in CacheKeys |-> Absent]
    /\ lock = TRUE
    /\ depth = 0
    /\ op = Call("__init__", "", VNone)
    /\ err = "none"
    /\ ret = VNone
    /\ hooks = 0
    /\ \E kind \in {"Session", "InteractiveSession"}, debug \in BOOLEAN,
          pager \in BOOLEAN, overwrite \in BOOLEAN :
          /\ sess = NewSession(kind, debug, pager, overwrite)
          /\ pager \/ state["paging_limit"] = Absent
    /\ vol = NoVol
    /\ load = NoLoad
    /\ resync = 0

NextVol ==
    \/ Dispatch \/ VolResolve \/ VolFlags \/ VolRenderer \/ VolStart
    \/ VolConstruct \/ VolStart2 \/ VolRender \/ VolEnd \/ VolPager
    \/ VolExcept \/ VolReturn \/ VolIdle \/ RepeatLast \/ Reset \/ ScopedUpdate

SpecVol == InitVol /\ [][NextVol]_vars

(***************************************************************************)
(* The profile search: session.LoadProfile(filename) on sessions with a    *)
(* profile_path list.                                                      *)
(***************************************************************************)
\* The containers a profile_path names
Containers == {"A", "B", "C"}

VStr(name) == Val("str", <<name>>, <<>>)

\* The profile_path lists: every list of distinct containers
PathLists ==
    {VList([i \in 1..Len(q) |-> VStr(q[i])]) :
        q \in {f \in UNION {[1..n -> Containers] : n \in 0..Cardinality(Containers)} :
                  \A i, j \in DOMAIN f : f[i] = f[j] => i = j}}

\* Session(profile_path=[...]) or Session(): the list is seeded or not
InitProfile ==
    /\ attached = TRUE
    /\ \E pp \in PathLists \cup {Absent} :
          state = [k \in Keys |->
                     CASE k = "cache" -> CacheObj
                       [] k = "profile_path" -> pp
                       [] OTHER -> Absent]
    /\ cache = [k \in CacheKeys |-> Absent]
    /\ lock = TRUE
    /\ depth = 0
    /\ op = Call("__init__", "", VNone)
    /\ err = "none"
    /\ ret = VNone
    /\ hooks = 0
    /\ sess = NewSession("Session", FALSE, FALSE, FALSE)
    /\ vol = NoVol
    /\ load = NoLoad
    /\ resync = 0

\* session.LoadProfile("nt") or session.LoadProfile("/tmp/x.img"), with the
\* profile held by the containers of avail ("direct" is the container of
\* the filename itself, "None" the one of io_manager.Factory(None)).
LoadProfileCall ==
    /\ \E filename \in {VProfile, VPath},
          avail \in SUBSET (Containers \cup {"None", "direct"}) :
          LET r == LoadProfile(filename, ProfilePath(state), avail)
          IN  /\ ret' = r.val
              /\ err' = r.err
              /\ load' = [avail |-> avail, tried |-> r.tried]
              /\ op' = Call("LoadProfile", "", filename)
    /\ hooks' = 0
    /\ UNCHANGED <<state, cache, lock, attached, depth, sess, vol, resync>>

NextProfile == LoadProfileCall

SpecProfile == InitProfile /\ [][NextProfile]_vars

(***************************************************************************)
(* A re-synchronization that enters a scoped update itself: a session      *)
(* whose UpdateFromConfigObject (or a collaborator it hands the session    *)
(* to) runs "with self.state:".                                            *)
(***************************************************************************)
\* Bound: the interpreter's recursion limit, in UpdateFromConfigObject
\* activations.
MaxRecursion == 3

\* Configuration.__exit__ of the caller's scope, lines 143-146: the lock is
\* taken and the hook is called; the hook is now running.
ExitResync ==
    /\ depth > 0 /\ resync = 0
    /\ \E exc_type \in {VNone, VBodyError} :
          /\ lock' = _exit_lock(exc_type)
          /\ hooks' = _exit_hooks(exc_type)
          /\ resync' = _exit_hooks(exc_type)
          /\ err' = IF exc_type # VNone THEN "BodyError" ELSE "none"
          /\ op' = Call("__exit__", "", exc_type)
    /\ depth' = depth - 1
    /\ ret' = VNone
    /\ UNCHANGED <<state, cache, attached, sess, vol, load>>

\* The running hook enters a scope on the same store: __enter__, lines
\* 138-141, unlocks whoever calls it.
HookEnter ==
    /\ resync > 0 /\ lock = TRUE
    /\ lock' = FALSE
    /\ op' = Call("__enter__", "resync", VNone)
    /\ err' = "none" /\ ret' = VNone
    /\ UNCHANGED <<state, cache, attached, depth, hooks, sess, vol, load, resync>>

\* The running hook leaves its scope: __exit__, lines 143-146, takes the
\* lock and calls the hook again, one activation deeper; at the recursion
\* limit the interpreter raises RuntimeError and every activation is
\* unwound.
HookExit ==
    /\ resync > 0 /\ lock = FALSE
    /\ lock' = _exit_lock(VNone)
    /\ IF resync < MaxRecursion
       THEN resync' = resync + 1 /\ hooks' = hooks + 1 /\ err' = "none"
       ELSE resync' = 0 /\ hooks' = hooks /\ err' = "RuntimeError"
    /\ op' = Call("__exit__", "resync", VNone)
    /\ ret' = VNone
    /\ UNCHANGED <<state, cache, attached, depth, sess, vol, load>>

\* The innermost activation returns to the __exit__ that called it (line
\* 146), which returns to the activation that left its scope, and so on to
\* the caller: every activation is over.
HookReturn ==
    /\ resync > 0 /\ lock = TRUE
    /\ resync' = 0
    /\ op' = Call("return", "resync", VNone)
    /\ UNCHANGED <<state, cache, lock, attached, depth, err, ret, hooks, sess, vol, load>>

NextReentrant ==
    \/ (resync = 0 /\ Enter)
    \/ ((resync = 0 \/ lock = FALSE) /\ Set)
    \/ ExitResync \/ HookEnter \/ HookExit \/ HookReturn

SpecReentrant == Init /\ [][NextReentrant]_vars

(***************************************************************************)
(* Properties.                                                             *)
(***************************************************************************)
Range(seq) == {seq[i] : i \in 1..Len(seq)}
Count(seq, e) == Cardinality({i \in 1..Len(seq) : seq[i] = e})

\* A step is a call of name n when it sets op to that call; lock, state and
\* cache unprimed are what the call found.

\* C1: every Set made while the store is locked fails with the locking
\* error and leaves the state layer (and the cache layer) as it was.
C1_LockedSetFails ==
    [][(op'.name = "Set" /\ lock)
         => (err' = "ValueError_locked" /\ state' = state /\ cache' = cache)]_vars

C1_Witness ==
    op.name = "Set" /\ lock /\ depth = 0 /\ err = "ValueError_locked"

\* C2: the store is locked when construction ends, only __enter__ unlocks
\* it, and it is locked after every __exit__, whether or not the body raised.
C2_LockProtocol ==
    /\ lock = TRUE
    /\ [][/\ (lock /\ ~lock') => op'.name = "__enter__"
          /\ op'.name = "__exit__" => lock']_vars

C2_Witness ==
    op.name = "__exit__" /\ op.v = VBodyError /\ lock

\* C3: an __exit__ on a store attached to a Session calls
\* UpdateFromConfigObject exactly once, also after a body that raised; Set,
\* __enter__ and StoreParameter call it not at all.
C3_ResyncOncePerExit ==
    /\ (op.name = "__exit__" /\ attached) => hooks = 1
    /\ op.name \in {"Set", "__enter__", "StoreParameter"} => hooks = 0

C3_Witness ==
    op.name = "__exit__" /\ op.v = VBodyError /\ attached /\ hooks = 1

\* C4: GetParameter(k, default) returns the state-layer value of k when it
\* is present and not None, else the cache-layer value of k when it is
\* present and not None, else default.
C4_Resolution ==
    op.name = "GetParameter" =>
        /\ err = "none"
        /\ ret = IF Get(state, op.k, VNone) # VNone THEN state[op.k]
                 ELSE IF Get(cache, op.k, VNone) # VNone THEN cache[op.k]
                 ELSE op.v

\* Beside C4: the resolution order holds as long as state['cache'] is the
\* Cache object, and a state-layer value that is not None is returned
\* whatever state['cache'] holds.
C4_ResolutionWhileCacheIntact ==
    op.name = "GetParameter" =>
        /\ Get(state, op.k, VNone) # VNone => (err = "none" /\ ret = state[op.k])
        /\ state["cache"] = CacheObj =>
              /\ err = "none"
              /\ ret = IF Get(state, op.k, VNone) # VNone THEN state[op.k]
                       ELSE IF Get(cache, op.k, VNone) # VNone THEN cache[op.k]
                       ELSE op.v

C4_BothLayersWitness ==
    /\ op.name = "GetParameter" /\ err = "none"
    /\ Get(state, op.k, VNone) # VNone /\ Get(cache, op.k, VNone) # VNone
    /\ state[op.k] # cache[op.k] /\ ret = state[op.k]

\* C5: StoreParameter(k, v) succeeds with the store locked or unlocked,
\* writes the cache-layer entry of k and nothing else: state layer, lock and
\* the session's profile, renderer and plugins stay as they were.
C5_StoreParameterFrame ==
    [][op'.name = "StoreParameter"
         => /\ err' = "none"
            /\ cache' = [cache EXCEPT ![op'.k] = op'.v]
            /\ state' = state /\ lock' = lock /\ sess' = sess]_vars

\* Beside C5: the frame holds as long as state['cache'] is the Cache object.
C5_FrameWhileCacheIntact ==
    [][(op'.name = "StoreParameter" /\ state["cache"] = CacheObj)
         => /\ err' = "none"
            /\ cache' = [cache EXCEPT ![op'.k] = op'.v]
            /\ state' = state /\ lock' = lock /\ sess' = sess]_vars

\* A value made only of None, bool, int, float, str and lists / dicts of
\* the same.
RECURSIVE Serializable(_)
Serializable(v) ==
    \/ v.t \in {"NoneType", "bool", "int", "long", "float", "str", "unicode"}
    \/ /\ v.t \in {"list", "tuple", "dict"}
       /\ \A i \in 1..Len(v.items) : Serializable(v.items[i])

\* C6: inside a scoped update Set(k, v) succeeds exactly when v is
\* serializable, and a Set that fails fails with the type error and leaves
\* the store as it was.
C6_SetIffSerializable ==
    [][(op'.name = "Set" /\ ~lock)
         => /\ (err' = "none") <=> Serializable(op'.v)
            /\ err' # "none" => (err' = "ValueError_type" /\ state' = state)]_vars

\* C7: every value held in the state layer and in the cache layer passes
\* the recursive type check.
C7_AllValuesSerializable ==
    /\ \A k \in Keys : state[k] = Absent \/ _CheckCorrectType(state[k])
    /\ \A k \in CacheKeys : cache[k] = Absent \/ _CheckCorrectType(cache[k])

RenderRaised == "render" \in Range(vol.events) /\ vol.exc \in Faults

HandlerEvents ==
    {"logging.error:Invalid Args", "error", "pdb.post_mortem",
     "report_progress:Aborted", "logging.error:Error"}

\* C8: in a dispatch whose render raised, whatever the exception, the
\* renderer's end() has been called exactly once when the except clauses are
\* reached, and stays called once to the end of the dispatch.
C8_EndOnceWhenRenderRaises ==
    (RenderRaised /\ vol.pc \in {"except", "return", "done"}) =>
        /\ Count(vol.events, "end") = 1
        /\ \A i \in 1..Len(vol.events) :
              vol.events[i] \in HandlerEvents =>
                  \E j \in 1..(i - 1) : vol.events[j] = "end"

C8_Witness ==
    /\ RenderRaised /\ vol.pc = "done" /\ vol.exc = "KeyboardInterrupt"
    /\ Count(vol.events, "end") = 1
    /\ "report_progress:Aborted" \in Range(vol.events)

\* C9: when the plugin's constructor raises InvalidArgs the dispatch
\* returns without raising, and the renderer, whose start() was called, has
\* had end() called when the dispatch returns.
C9_EndAfterInvalidArgs ==
    (vol.pc = "done" /\ vol.exc = "InvalidArgs" /\ "render" \notin Range(vol.events)) =>
        /\ vol.outcome = "returned"
        /\ "start" \in Range(vol.events)
        /\ "end" \in Range(vol.events)

C11_UnknownPluginNoEffect ==
    [][("logging.error:not active" \in Range(vol'.events)) =>
          /\ vol'.events = <<"logging.error:not active">>
          /\ vol'.outcome # "raised"
          /\ vol'.ui_renderer # "new" /\ vol'.fd = "None" /\ vol'.result = "None"
          /\ state' = state /\ cache' = cache /\ sess' = sess]_vars

\* The part of C11 that the base Session keeps: nothing of the session
\* changes, whatever it remembered.
C11_UnknownPluginNoEffectOnBase ==
    [][("logging.error:not active" \in Range(vol'.events) /\ sess.kind = "Session") =>
          /\ vol'.events = <<"logging.error:not active">>
          /\ vol'.outcome # "raised"
          /\ state' = state /\ cache' = cache /\ sess' = sess]_vars

C12_RefusedWitness ==
    /\ vol.exists = "yes" /\ ~sess.overwrite /\ ~vol.overwrite
    /\ vol.pc = "done" /\ vol.outcome = "returned"

\* C13: the pager is written and flushed exactly when render returned, the
\* session has a pager and the size of the renderer's data is at or above
\* the paging_limit (an unset limit is below every size); the flush comes
\* after the renderer's end() and before the dispatch returns, and there is
\* none when render raised or was never reached.
C13_PagerExactly ==
    LET paged == "pager.flush" \in Range(vol.events)
        limit == Get(state, "paging_limit", VNone)
        n     == Len(vol.events)
    IN  /\ (vol.pc \in {"return", "done"} /\ "render" \in Range(vol.events)) =>
              (paged <=> /\ vol.exc = "none"
                         /\ sess.pager
                         /\ (limit = VNone \/ vol.data >= IntOf(limit)))
        /\ "render" \notin Range(vol.events) => ~paged
        /\ paged =>
              /\ vol.pc \in {"return", "done"}
              /\ Count(vol.events, "pager.flush") = 1
              /\ n >= 3
              /\ vol.events[n] = "pager.flush"
              /\ vol.events[n - 1] = "pager.write"
              /\ vol.events[n - 2] = "end"

\* The data size is exactly the limit and the pager was flushed.
C13_Witness ==
    /\ "pager.flush" \in Range(vol.events)
    /\ Get(state, "paging_limit", VNone) = VInt1
    /\ vol.data = 1
    /\ vol.pc = "done"

\* C14: a dispatch whose render returned gives its caller the plugin
\* instance it ran (the new one for a name or a class, the given one for an
\* instance), on the base Session and on the InteractiveSession; a dispatch
\* that ended in a handled failure gives no instance.
C14_ReturnsInstance ==
    (vol.pc = "done" /\ vol.outcome = "returned") =>
        IF "end" \in Range(vol.events) /\ vol.exc = "none"
        THEN /\ vol.returned = vol.result
             /\ vol.returned = IF vol.ref = "instance" THEN "given" ELSE "new"
        ELSE vol.returned = "None"

\* What the base Session keeps of C14.
C14_ReturnsInstanceOnBase ==
    (vol.pc = "done" /\ vol.outcome = "returned" /\ sess.kind = "Session") =>
        IF "end" \in Range(vol.events) /\ vol.exc = "none"
        THEN /\ vol.returned = vol.result
             /\ vol.returned = IF vol.ref = "instance" THEN "given" ELSE "new"
        ELSE vol.returned = "None"

\* C15: once a dispatch has completed on an InteractiveSession, the session
\* remembers one for RepeatLast whatever dispatch comes later: a later
\* dispatch that fails or is aborted does not make it forget.
C15_RepeatLastRemembers ==
    [][sess.last # "None" => sess'.last # "None"]_vars

\* C20: with raw flags, every keyword argument the caller passed
\* explicitly reaches the plugin with the caller's value.
C20_ExplicitKwargsKept ==
    (vol.flags /\ vol.explicit /\ vol.result = "new") =>
        <<"pid", "caller">> \in vol.kwargs

\* Without flags the caller's keyword arguments reach the plugin.
C20_KeptWithoutFlags ==
    (~vol.flags /\ vol.explicit /\ vol.result = "new") =>
        <<"pid", "caller">> \in vol.kwargs

(***************************************************************************)
(* The profile search and the re-synchronization.                          *)
(***************************************************************************)
\* The containers a search over the configured list has to open, in order
SearchOrder == Reverse(ProfilePath(state))

\* The positions of SearchOrder whose container holds the profile
Hits == {i \in 1..Len(SearchOrder) : SearchOrder[i] \in load.avail}

\* C16: for a reference without a path separator, LoadProfile opens the
\* containers of profile_path from the last to the first; a container
\* without the profile does not end the search, the first one that holds
\* it gives the result and no later one is opened, and only when none
\* holds it is the last failure the result.
C16_SearchOrder ==
    (op.name = "LoadProfile" /\ Len(op.v.a) = 1 /\ SearchOrder # <<>>) =>
        /\ err = "none"
        /\ IF Hits # {}
           THEN LET h == CHOOSE i \in Hits : \A j \in Hits : i <= j
                IN  /\ load.tried = SubSeq(SearchOrder, 1, h)
                    /\ ret.t = "Profile"
           ELSE /\ load.tried = SearchOrder
                /\ ret = VNoneObject

\* What the search does: it opens the last container of the list and no other.
C16_OnlyLastEntryOpened ==
    (op.name = "LoadProfile" /\ Len(op.v.a) = 1 /\ SearchOrder # <<>>) =>
        /\ err = "none"
        /\ load.tried = <<SearchOrder[1]>>
        /\ ret.t = IF SearchOrder[1] \in load.avail THEN "Profile" ELSE "NoneObject"

\* C17: LoadProfile does not raise when a container does not hold the
\* profile: for a reference with a path separator and for a search that
\* found nothing (an empty profile_path included) it returns a not-found
\* object.
C17_LoadProfileNeverRaises ==
    op.name = "LoadProfile" =>
        /\ err = "none"
        /\ ret.t \in {"Profile", "NoneObject"}

\* What holds of C17: a search over a list that is not empty does not raise
\* and returns a profile or a not-found object.
C17_SearchNeverRaises ==
    (op.name = "LoadProfile" /\ Len(op.v.a) = 1 /\ SearchOrder # <<>>) =>
        /\ err = "none"
        /\ ret.t \in {"Profile", "NoneObject"}

\* C18: after every exit from a scoped update on a session's state, a
\* session with no profile configured included, the re-synchronization has
\* run without raising and the profile, the renderer class and the plugin
\* registry have been computed from the configuration.
C18_ResyncCompletes ==
    (op.name = "__exit__" /\ attached) =>
        /\ err \in {"none", "BodyError"}
        /\ sess.filename = Get(state, "filename", VNone)
        /\ sess.profile.t \in {"Profile", "NoneObject"}
        /\ sess.renderer # "unset"
        /\ sess.plugins.built
        /\ sess.plugins.names = GetActiveClasses(sess.profile)

\* What holds of C18: with a profile configured and the cache in place the
\* re-synchronization completes.
C18_ResyncCompletesWithProfile ==
    (op.name = "__exit__" /\ attached /\ Get(state, "profile", VNone).t = "str"
        /\ state["cache"] = CacheObj) =>
        /\ err \in {"none", "BodyError"}
        /\ sess.filename = Get(state, "filename", VNone)
        /\ sess.profile.t \in {"Profile", "NoneObject"}
        /\ sess.renderer # "unset"
        /\ sess.plugins.built
        /\ sess.plugins.names = GetActiveClasses(sess.profile)

\* C19: a re-synchronization that enters a scoped update on the same store
\* gets an error at once; no re-synchronization runs inside another, and
\* the store is locked once the outer scope is left and the
\* re-synchronization is over.
C19_NestedUnlockFailsFast ==
    /\ (resync > 0 /\ op.name = "__enter__") => (err # "none" /\ lock = TRUE)
    /\ resync <= 1
    /\ (depth = 0 /\ resync = 0) => lock = TRUE

\* What holds of C19: the store is locked whenever no scope is open and no
\* re-synchronization is running.
C19_LockedAfterOuterExit ==
    (depth = 0 /\ resync = 0) => lock = TRUE
====
